---------------------------- MODULE Spec2Model ----------------------------
(***************************************************************************)
(* Model of the two reconciliation daemons of linode-tools:                *)
(*   nginx : src/cmd/kube-nginx/main.go  (upstreams file + systemctl)      *)
(*   ufw   : src/unnamed/part_000        (user.rules file + ufw reload)    *)
(* Both run one goroutine that polls the node list, compares it with the   *)
(* previous one, and on a difference renders, writes and reloads; the main *)
(* goroutine only waits for SIGINT.                                        *)
(*                                                                         *)
(* A net.IP is represented by the value of its String() method, a file by  *)
(* its bytes (a TLA+ string), a []string by a sequence of strings.         *)
(***************************************************************************)
EXTENDS Integers, Sequences, FiniteSets, TLC

VARIABLES
    variant,   \* which program runs: "nginx" or "ufw"
    pc,        \* position of the loop goroutine (or "crashed" / "exited")
    cycles,    \* number of getKubeNodes calls made so far
    oldHosts,  \* main: var oldHosts []net.IP
    newHosts,  \* main: newHosts
    changed,   \* the value isDiff returned in this iteration
    config,    \* main: configs / ufwConfig, the rendered lines
    file,      \* bytes of the artifact file on disk
    fh,        \* the *os.File of the running write: [ok, off]
    wpos,      \* nginx: lines already written; ufw: bytes already flushed
    hist       \* what happened in the current iteration (for the properties)

vars == <<variant, pc, cycles, oldHosts, newHosts, changed, config, file, fh, wpos, hist>>

-----------------------------------------------------------------------------
(* Bounds of the model *)

MaxNodes == 2

MaxCycles == 2

MaxLen == 2

MaxFileLines == 4

MaxHosts == 4

-----------------------------------------------------------------------------
(* Generic helpers on byte strings and sequences *)

SeqsUpTo(S, n) == UNION {[1..k -> S] : k \in 0..n}

Char(s, i) == SubSeq(s, i, i)

RECURSIVE Join(_)
Join(lines) ==
    IF lines = <<>> THEN ""
    ELSE Head(lines) \o "\n" \o Join(Tail(lines))

Digit(d) == Char("0123456789", d + 1)

RECURSIVE Itoa(_)
Itoa(n) == IF n < 10 THEN Digit(n) ELSE Itoa(n \div 10) \o Digit(n % 10)


(* Index of the first byte c of s at or after position start, 0 if none *)
IndexFrom(s, c, start) ==
    LET hits == {i \in start..Len(s) : Char(s, i) = c}
    IN  IF hits = {} THEN 0 ELSE CHOOSE i \in hits : \A j \in hits : i <= j

RECURSIVE SplitFrom(_, _, _)
SplitFrom(s, sep, start) ==
    LET i == IndexFrom(s, sep, start)
    IN  IF i = 0 THEN <<SubSeq(s, start, Len(s))>>
        ELSE <<SubSeq(s, start, i - 1)>> \o SplitFrom(s, sep, i + 1)

(* strings.Split(s, sep) for a one-byte separator *)
Split(s, sep) == SplitFrom(s, sep, 1)

IsDigit(c) == \E d \in 0..9 : Digit(d) = c

DigitVal(c) == CHOOSE d \in 0..9 : Digit(d) = c

RECURSIVE Atoi(_)
Atoi(s) ==
    IF Len(s) = 0 THEN 0
    ELSE 10 * Atoi(SubSeq(s, 1, Len(s) - 1)) + DigitVal(Char(s, Len(s)))

-----------------------------------------------------------------------------
(* net.IP: a dotted-quad IPv4 address is the tuple of its four bytes, the  *)
(* nil IP (what net.ParseIP returns for text that is no address) is <<>>.  *)

NilIP == <<>>

ValidOctet(f) ==
    /\ Len(f) \in 1..3
    /\ \A i \in 1..Len(f) : IsDigit(Char(f, i))
    /\ (Len(f) > 1 => Char(f, 1) # "0")
    /\ Atoi(f) <= 255

(* net.ParseIP on IPv4 text: four decimal fields 0..255 without leading zeros *)
ParseIP(s) ==
    LET f == Split(s, ".")
    IN  IF Len(f) = 4 /\ \A i \in 1..4 : ValidOctet(f[i])
        THEN [i \in 1..4 |-> Atoi(f[i])]
        ELSE NilIP

(* net.IP.String() *)
IPString(ip) ==
    IF ip = NilIP THEN "<nil>"
    ELSE Itoa(ip[1]) \o "." \o Itoa(ip[2]) \o "." \o Itoa(ip[3]) \o "." \o Itoa(ip[4])

-----------------------------------------------------------------------------
(* getKubeNodes: the part after a successful Nodes().List().  A node is    *)
(* [present, value]: whether it carries the annotation                     *)
(* projectcalico.org/IPv4Address, and the annotation's text.               *)

RECURSIVE getKubeNodesResults(_)
getKubeNodesResults(items) ==
    IF items = <<>> THEN <<>>
    ELSE LET val == Head(items)
         IN  IF val.present
             THEN <<ParseIP(Split(val.value, "/")[1])>> \o getKubeNodesResults(Tail(items))
             ELSE getKubeNodesResults(Tail(items))

(* The annotations the modelled cluster hands out *)
Annotations == {"10.0.0.5/24", "10.0.0.16/24"}

Nodes == [present : {TRUE}, value : Annotations] \cup [present : {FALSE}, value : {""}]

Inventories == SeqsUpTo(Nodes, MaxNodes)

-----------------------------------------------------------------------------
(* isDiff, the same text in both programs.  The parameters keep the names  *)
(* of the function; main calls isDiff(newHosts, oldHosts), so the first    *)
(* parameter receives the fresh list.                                      *)

RECURSIVE isDiffMatches(_, _)
isDiffMatches(oldH, newH) ==
    IF oldH = <<>> THEN 0
    ELSE (IF \E k \in 1..Len(newH) : IPString(Head(oldH)) = IPString(newH[k])
          THEN 1 ELSE 0) + isDiffMatches(Tail(oldH), newH)

isDiff(oldH, newH) ==
    IF Len(newH) # Len(oldH) THEN TRUE
    ELSE IF isDiffMatches(oldH, newH) # Len(newH) THEN TRUE
    ELSE FALSE

-----------------------------------------------------------------------------
(* bufio.Scanner with the default split function ScanLines: the lines end  *)
(* at "\n", one trailing "\r" is dropped, and a last line without "\n" is  *)
(* returned when it is not empty.                                          *)

dropCR(l) ==
    IF Len(l) > 0 /\ Char(l, Len(l)) = "\r" THEN SubSeq(l, 1, Len(l) - 1) ELSE l

(* bufio.MaxScanTokenSize: the scanner stops (ErrTooLong, which buildUFW   *)
(* does not look at) at a line that does not fit its buffer.               *)
MaxScanTokenSize == 65536

RECURSIVE ScanFrom(_, _)
ScanFrom(s, start) ==
    LET i == IndexFrom(s, "\n", start)
        stop == IF i = 0 THEN Len(s) ELSE i - 1
    IN  IF stop - start + 1 >= MaxScanTokenSize THEN <<>>
        ELSE IF i = 0
        THEN IF start > Len(s) THEN <<>> ELSE <<dropCR(SubSeq(s, start, Len(s)))>>
        ELSE <<dropCR(SubSeq(s, start, i - 1))>> \o ScanFrom(s, i + 1)

ScanLines(data) == ScanFrom(data, 1)

-----------------------------------------------------------------------------
(* The firewall renderer *)

StartMarker == "### RULES ###"

EndMarker == "### END RULES ###"

fixedRules ==
    << "",
       "### tuple ### allow any 22 0.0.0.0/0 any 0.0.0.0/0 in",
       "-A ufw-user-input -p tcp --dport 22 -j ACCEPT",
       "-A ufw-user-input -p udp --dport 22 -j ACCEPT",
       "" >>

(* The scanner loop of buildUFW over the lines not yet read: st holds      *)
(* blnStart, blnEnd, startConfig and endConfig.                            *)
RECURSIVE buildUFWScan(_, _)
buildUFWScan(lines, st) ==
    IF lines = <<>> THEN st
    ELSE LET text == Head(lines)
             s1 == IF ~st.blnStart
                   THEN [st EXCEPT !.startConfig = Append(@, text)] ELSE st
             s2 == IF text = StartMarker THEN [s1 EXCEPT !.blnStart = TRUE] ELSE s1
             s3 == IF text = EndMarker THEN [s2 EXCEPT !.blnEnd = TRUE] ELSE s2
             s4 == IF s3.blnEnd
                   THEN [s3 EXCEPT !.endConfig = Append(@, text)] ELSE s3
         IN  buildUFWScan(Tail(lines), s4)

(* The three lines buildUFW appends for one address *)
ufwRule(n) ==
    << "### tuple ### allow tcp 27017 0.0.0.0/0 any " \o IPString(n) \o " in",
       "-A ufw-user-input -p tcp --dport 27017 -s " \o IPString(n) \o " -j ACCEPT",
       "" >>

(* ufwRules that puts each new rule in front of the earlier ones *)
RECURSIVE ufwRulesPrepend(_)
ufwRulesPrepend(ipList) ==
    IF ipList = <<>> THEN <<>>
    ELSE ufwRulesPrepend(Tail(ipList)) \o ufwRule(Head(ipList))

RECURSIVE ufwRules(_)
ufwRules(ipList) ==
    IF ipList = <<>> THEN <<>>
    ELSE ufwRule(Head(ipList)) \o ufwRules(Tail(ipList))

(* buildUFW that forgets to append endConfig *)
buildUFWNoEnd(ipList, data, opened) ==
    IF ~opened THEN <<>>
    ELSE LET st == buildUFWScan(ScanLines(data),
                       [blnStart |-> FALSE, blnEnd |-> FALSE,
                        startConfig |-> <<>>, endConfig |-> <<>>])
         IN  st.startConfig \o fixedRules \o ufwRules(ipList)

(* buildUFW(ipList, rules): data is the content of the file named rules,   *)
(* opened says whether os.Open succeeded.                                  *)
buildUFW(ipList, data, opened) ==
    IF ~opened THEN <<>>
    ELSE LET st == buildUFWScan(ScanLines(data),
                       [blnStart |-> FALSE, blnEnd |-> FALSE,
                        startConfig |-> <<>>, endConfig |-> <<>>])
             newConfig == fixedRules \o ufwRules(ipList)
         IN  st.startConfig \o newConfig \o st.endConfig

-----------------------------------------------------------------------------
(* The load-balancer renderer *)

upstreams ==
    << [upstream |-> "diy", port |-> 32016],
       [upstream |-> "dockerui", port |-> 32018],
       [upstream |-> "tryingadventure", port |-> 32020],
       [upstream |-> "devops", port |-> 32021],
       [upstream |-> "monitor", port |-> 32699] >>

(* nginxServers that leaves the inner loop after its first address *)
nginxServersFirstOnly(ipList, port) ==
    IF ipList = <<>> THEN <<>>
    ELSE <<"server " \o IPString(Head(ipList)) \o ":" \o Itoa(port) \o " weight=100;">>

RECURSIVE nginxServers(_, _)
nginxServers(ipList, port) ==
    IF ipList = <<>> THEN <<>>
    ELSE <<"server " \o IPString(Head(ipList)) \o ":" \o Itoa(port) \o " weight=100;">>
         \o nginxServers(Tail(ipList), port)

RECURSIVE nginxBlocks(_, _)
nginxBlocks(ups, ipList) ==
    IF ups = <<>> THEN <<>>
    ELSE LET k == Head(ups)
         IN  <<"upstream " \o k.upstream \o " {">>
             \o nginxServers(ipList, k.port)
             \o <<"}">>
             \o nginxBlocks(Tail(ups), ipList)

buildNginx(ipList) == nginxBlocks(upstreams, ipList)

-----------------------------------------------------------------------------
(* Files *)

(* A write of p at offset off of a file holding data: the bytes after the  *)
(* written range stay.                                                     *)
WriteAt(data, off, p) ==
    SubSeq(data, 1, off) \o p \o SubSeq(data, off + Len(p) + 1, Len(data))

(* Size of the buffer bufio.NewWriter allocates *)
BufSize == 4096

Closed == [ok |-> FALSE, off |-> 0]

(* The artifact before the daemon starts: no upstreams file yet, and a     *)
(* user.rules with both markers.                                           *)
InitialFile(v) ==
    IF v = "nginx" THEN ""
    ELSE Join(<<"*filter", StartMarker, EndMarker, "COMMIT">>)

-----------------------------------------------------------------------------
(* The loop goroutine of main, one action per statement *)

(* What the properties need to know of an iteration: prev and before are  *)
(* oldHosts and the file when it fetched, gap the number of time.Sleep     *)
(* calls between the fetch before and this one, reload the outcome of the  *)
(* reload command, dirty whether an open of the artifact has failed so far *)
(* in the run.                                                             *)
Iteration(failed) ==
    [fetchErr |-> failed, prev |-> oldHosts, before |-> file,
     readOK |-> FALSE, writeOK |-> FALSE,
     renders |-> 0, writes |-> 0, reloads |-> 0, reload |-> "none",
     sleeps |-> 0, gap |-> 0, dirty |-> FALSE]

(* The record of the iteration a fetch starts *)
NextIteration(failed) ==
    [Iteration(failed) EXCEPT !.gap = hist.sleeps, !.dirty = hist.dirty]

(* Outcomes of NginxReload / UFWReload: the command ran and exited 0, ran  *)
(* and exited non-zero (never looked at: there is no cmd.Wait), cmd.Start  *)
(* failed (logged), or cmd.StdoutPipe failed (logged, and the nil stdout   *)
(* is then used by defer stdout.Close(), a nil dereference that panics).   *)
ReloadOutcomes == {"ok", "nonzero", "nostart", "nopipe"}

(* A reload after which every failure ends the process *)
ReloadNextFatal(res, next) == IF res = "ok" THEN next ELSE "crashed"

(* Where the loop is after the reload call *)
ReloadNext(res, next) == IF res = "nopipe" THEN "crashed" ELSE next

(* FetchNext without the `continue`: the loop body goes on after an error *)
FetchNextNoContinue(failed) == "diff"

(* Where the nginx loop goes after getKubeNodes: `continue` on an error *)
FetchNext(failed) == IF failed THEN "fetch" ELSE "diff"

(* nginx: newHosts, err := getKubeNodes(kubeconfig); if err != nil { continue } *)
NginxFetch ==
    /\ variant = "nginx"
    /\ pc = "fetch"
    /\ cycles < MaxCycles
    /\ \E failed \in BOOLEAN, items \in Inventories :
        /\ newHosts' = IF failed THEN <<>> ELSE getKubeNodesResults(items)
        /\ pc' = FetchNext(failed)
        /\ hist' = NextIteration(failed)
    /\ cycles' = cycles + 1
    /\ UNCHANGED <<variant, oldHosts, changed, config, file, fh, wpos>>

(* ufw: newHosts, _ = getKubeNodes(kubeconfig), which panics on every error *)
UFWFetch ==
    /\ variant = "ufw"
    /\ pc = "fetch"
    /\ cycles < MaxCycles
    /\ \E failed \in BOOLEAN, items \in Inventories :
        /\ newHosts' = IF failed THEN newHosts ELSE getKubeNodesResults(items)
        /\ pc' = IF failed THEN "crashed" ELSE "diff"
        /\ hist' = NextIteration(failed)
    /\ cycles' = cycles + 1
    /\ UNCHANGED <<variant, oldHosts, changed, config, file, fh, wpos>>

(* if isDiff(newHosts, oldHosts) { ... } *)
Diff ==
    /\ pc = "diff"
    /\ changed' = isDiff(newHosts, oldHosts)
    /\ pc' = IF changed' THEN "build" ELSE "advance"
    /\ UNCHANGED <<variant, cycles, oldHosts, newHosts, config, file, fh, wpos, hist>>

(* NginxBuild followed by the reload instead of the write *)
NginxBuildThenReload ==
    /\ variant = "nginx"
    /\ pc = "build"
    /\ config' = buildNginx(newHosts)
    /\ hist' = [hist EXCEPT !.renders = @ + 1]
    /\ pc' = "reload"
    /\ UNCHANGED <<variant, cycles, oldHosts, newHosts, changed, file, fh, wpos>>

(* configs := buildNginx(newHosts) *)
NginxBuild ==
    /\ variant = "nginx"
    /\ pc = "build"
    /\ config' = buildNginx(newHosts)
    /\ hist' = [hist EXCEPT !.renders = @ + 1]
    /\ pc' = "open"
    /\ UNCHANGED <<variant, cycles, oldHosts, newHosts, changed, file, fh, wpos>>

(* ufwConfig := buildUFW(newHosts, rules); os.Open may fail *)
UFWBuild ==
    /\ variant = "ufw"
    /\ pc = "build"
    /\ \E opened \in BOOLEAN :
        /\ config' = buildUFW(newHosts, file, opened)
        /\ hist' = [hist EXCEPT !.renders = @ + 1, !.readOK = opened,
                               !.dirty = @ \/ ~opened]
    /\ pc' = "open"
    /\ UNCHANGED <<variant, cycles, oldHosts, newHosts, changed, file, fh, wpos>>

(* writeNginx: file, err := os.Create(config), which truncates; the error  *)
(* is logged and the function goes on.                                     *)
NginxCreate ==
    /\ variant = "nginx"
    /\ pc = "open"
    /\ \E ok \in BOOLEAN :
        /\ fh' = [ok |-> ok, off |-> 0]
        /\ file' = IF ok THEN "" ELSE file
        /\ hist' = [hist EXCEPT !.writes = @ + 1, !.writeOK = ok,
                               !.dirty = @ \/ ~ok]
    /\ wpos' = 0
    /\ pc' = IF config = <<>> THEN "presleep" ELSE "write"
    /\ UNCHANGED <<variant, cycles, oldHosts, newHosts, changed, config>>

(* writeNginx: one fmt.Fprintln(file, data) of the range loop; after the   *)
(* last one the function returns and the deferred Close runs.  A write to  *)
(* the nil file of a failed Create returns an error that is dropped.       *)
NginxWriteLine ==
    /\ variant = "nginx"
    /\ pc = "write"
    /\ wpos < Len(config)
    /\ LET p == config[wpos + 1] \o "\n"
       IN  /\ file' = IF fh.ok THEN WriteAt(file, fh.off, p) ELSE file
           /\ fh' = IF wpos + 1 = Len(config) THEN Closed
                    ELSE [fh EXCEPT !.off = IF fh.ok THEN @ + Len(p) ELSE @]
    /\ wpos' = wpos + 1
    /\ pc' = IF wpos' = Len(config) THEN "presleep" ELSE "write"
    /\ UNCHANGED <<variant, cycles, oldHosts, newHosts, changed, config, hist>>

(* nginx: time.Sleep(5 * time.Second) between writeNginx and NginxReload *)
NginxSleepBeforeReload ==
    /\ variant = "nginx"
    /\ pc = "presleep"
    /\ hist' = [hist EXCEPT !.sleeps = @ + 1]
    /\ pc' = "reload"
    /\ UNCHANGED <<variant, cycles, oldHosts, newHosts, changed, config, file, fh, wpos>>

(* NginxReload(systemctl): a failed cmd.Start is logged, nothing is returned *)
NginxReload ==
    /\ variant = "nginx"
    /\ pc = "reload"
    /\ \E res \in ReloadOutcomes :
        /\ hist' = [hist EXCEPT !.reloads = @ + 1, !.reload = res]
        /\ pc' = ReloadNext(res, "advance")
    /\ UNCHANGED <<variant, cycles, oldHosts, newHosts, changed, config, file, fh, wpos>>

(* writeUFW: os.OpenFile(rules, os.O_CREATE|os.O_WRONLY, 0644): no         *)
(* O_TRUNC, the content stays; the error is logged and the function goes   *)
(* on.                                                                     *)
UFWOpen ==
    /\ variant = "ufw"
    /\ pc = "open"
    /\ \E ok \in BOOLEAN :
        /\ fh' = [ok |-> ok, off |-> 0]
        /\ hist' = [hist EXCEPT !.writes = @ + 1, !.writeOK = ok,
                               !.dirty = @ \/ ~ok]
    /\ wpos' = 0
    /\ pc' = "write"
    /\ UNCHANGED <<variant, cycles, oldHosts, newHosts, changed, config, file>>

(* writeUFW: the bufio.Writer hands the lines to the file in pieces of the *)
(* buffer size, the last piece at datawriter.Flush(); then the function    *)
(* returns and the deferred Close runs.  Nothing is written when there are *)
(* no bytes, or when the open failed.                                      *)
UFWWrite ==
    /\ variant = "ufw"
    /\ pc = "write"
    /\ LET all == Join(config)
           n == IF Len(all) - wpos > BufSize THEN BufSize ELSE Len(all) - wpos
           p == SubSeq(all, wpos + 1, wpos + n)
       IN  /\ file' = IF fh.ok /\ n > 0 THEN WriteAt(file, fh.off, p) ELSE file
           /\ wpos' = wpos + n
           /\ fh' = IF wpos' = Len(all) THEN Closed
                    ELSE [fh EXCEPT !.off = IF fh.ok THEN @ + n ELSE @]
           /\ pc' = IF wpos' = Len(all) THEN "reload" ELSE "write"
    /\ UNCHANGED <<variant, cycles, oldHosts, newHosts, changed, config, hist>>

(* UFWReload(ufwcmd) *)
UFWReload ==
    /\ variant = "ufw"
    /\ pc = "reload"
    /\ \E res \in ReloadOutcomes :
        /\ hist' = [hist EXCEPT !.reloads = @ + 1, !.reload = res]
        /\ pc' = ReloadNext(res, "postsleep")
    /\ UNCHANGED <<variant, cycles, oldHosts, newHosts, changed, config, file, fh, wpos>>

(* ufw: time.Sleep(5 * time.Second) after UFWReload, inside the if *)
UFWSleepAfterReload ==
    /\ variant = "ufw"
    /\ pc = "postsleep"
    /\ hist' = [hist EXCEPT !.sleeps = @ + 1]
    /\ pc' = "advance"
    /\ UNCHANGED <<variant, cycles, oldHosts, newHosts, changed, config, file, fh, wpos>>

(* oldHosts = newHosts *)
Advance ==
    /\ pc = "advance"
    /\ oldHosts' = newHosts
    /\ pc' = "sleep"
    /\ UNCHANGED <<variant, cycles, newHosts, changed, config, file, fh, wpos, hist>>

(* time.Sleep(5 * time.Second) at the end of the loop body *)
Sleep ==
    /\ pc = "sleep"
    /\ hist' = [hist EXCEPT !.sleeps = @ + 1]
    /\ pc' = "fetch"
    /\ UNCHANGED <<variant, cycles, oldHosts, newHosts, changed, config, file, fh, wpos>>

(* The main goroutine: s := <-c returns on SIGINT and main returns, which  *)
(* ends the process wherever the loop goroutine is.                        *)
Interrupt ==
    /\ pc \notin {"crashed", "exited"}
    /\ pc' = "exited"
    /\ UNCHANGED <<variant, cycles, oldHosts, newHosts, changed, config, file, fh, wpos, hist>>

Init ==
    /\ variant \in {"nginx", "ufw"}
    /\ pc = "fetch"
    /\ cycles = 0
    /\ oldHosts = <<>>
    /\ newHosts = <<>>
    /\ changed = FALSE
    /\ config = <<>>
    /\ file = InitialFile(variant)
    /\ fh = Closed
    /\ wpos = 0
    /\ hist = Iteration(FALSE)

Next ==
    \/ NginxFetch
    \/ UFWFetch
    \/ Diff
    \/ NginxBuild
    \/ UFWBuild
    \/ NginxCreate
    \/ NginxWriteLine
    \/ NginxSleepBeforeReload
    \/ NginxReload
    \/ UFWOpen
    \/ UFWWrite
    \/ UFWReload
    \/ UFWSleepAfterReload
    \/ Advance
    \/ Sleep
    \/ Interrupt

Spec == Init /\ [][Next]_vars

-----------------------------------------------------------------------------
(* Specifications that apply one function of the programs to inputs drawn  *)
(* from bounded sets.                                                      *)

(* Address lists getKubeNodes can return for clusters of at most MaxLen    *)
(* nodes: annotations that share an address, and one that is no address.   *)
DiffAnnotations == {"10.0.0.5/24", "10.0.0.5/16", "10.0.0.16/24", "bogus"}

HostLists ==
    {getKubeNodesResults(items) :
        items \in SeqsUpTo([present : {TRUE}, value : DiffAnnotations], MaxLen)}

InitDiff ==
    /\ variant \in {"nginx", "ufw"}
    /\ pc = "diff"
    /\ cycles = 1
    /\ oldHosts \in HostLists
    /\ newHosts \in HostLists
    /\ changed = FALSE
    /\ config = <<>>
    /\ file = InitialFile(variant)
    /\ fh = Closed
    /\ wpos = 0
    /\ hist = Iteration(FALSE)

NextDiff == Diff

SpecDiff == InitDiff /\ [][NextDiff]_vars

(* The lines a rules file is made of in SpecBuild *)
FileLines == {"*filter\r", StartMarker, EndMarker, "COMMIT"}

RulesFiles == {Join(ls) : ls \in SeqsUpTo(FileLines, MaxFileLines)}

InitBuild ==
    /\ variant = "ufw"
    /\ pc = "build"
    /\ cycles = 1
    /\ oldHosts = <<>>
    /\ newHosts \in {getKubeNodesResults(items) : items \in Inventories}
    /\ changed = TRUE
    /\ config = <<>>
    /\ file \in RulesFiles
    /\ fh = Closed
    /\ wpos = 0
    /\ hist = Iteration(FALSE)

NextBuild == UFWBuild

SpecBuild == InitBuild /\ [][NextBuild]_vars

(* buildNginx on the address lists of clusters of at most MaxHosts nodes *)
InitNginx ==
    /\ variant = "nginx"
    /\ pc = "build"
    /\ cycles = 1
    /\ oldHosts = <<>>
    /\ newHosts \in {getKubeNodesResults(items) :
            items \in SeqsUpTo([present : {TRUE}, value : DiffAnnotations], MaxHosts)}
    /\ changed = TRUE
    /\ config = <<>>
    /\ file = InitialFile(variant)
    /\ fh = Closed
    /\ wpos = 0
    /\ hist = Iteration(FALSE)

NextNginx == NginxBuild

SpecNginx == InitNginx /\ [][NextNginx]_vars

(* writeNginx and writeUFW on rendered lines, over a file that holds an    *)
(* earlier rendering (or nothing).                                         *)
Rendered(v) ==
    {IF v = "nginx" THEN buildNginx(getKubeNodesResults(items))
     ELSE buildUFW(getKubeNodesResults(items), InitialFile("ufw"), TRUE) :
        items \in Inventories}

InitWrite ==
    /\ variant \in {"nginx", "ufw"}
    /\ pc = "open"
    /\ cycles = 1
    /\ oldHosts = <<>>
    /\ newHosts = <<>>
    /\ changed = TRUE
    /\ config \in Rendered(variant)
    /\ file \in {Join(c) : c \in Rendered(variant)} \cup {""}
    /\ fh = Closed
    /\ wpos = 0
    /\ hist = Iteration(FALSE)

NextWrite ==
    \/ NginxCreate
    \/ NginxWriteLine
    \/ UFWOpen
    \/ UFWWrite

SpecWrite == InitWrite /\ [][NextWrite]_vars

-----------------------------------------------------------------------------
(* Vocabulary of the properties *)

(* The addresses of a list, by string form *)
SetOf(hosts) == {IPString(hosts[i]) : i \in 1..Len(hosts)}

(* The loop is past isDiff in this iteration *)
Diffed == pc \in {"build", "advance"}

(* The write of this iteration is over (writeNginx / writeUFW returned) *)
Written == hist.writes > 0 /\ pc \in {"presleep", "reload"}

(* First index >= from of a line equal to m, 0 if there is none *)
FirstLine(lines, m, from) ==
    LET hits == {i \in from..Len(lines) : lines[i] = m}
    IN  IF hits = {} THEN 0 ELSE CHOOSE i \in hits : \A j \in hits : i <= j

StartAt(lines) == FirstLine(lines, StartMarker, 1)

EndAt(lines) == FirstLine(lines, EndMarker, StartAt(lines) + 1)

(* lines has a start marker and, after it, an end marker *)
HasRegion(lines) == StartAt(lines) > 0 /\ EndAt(lines) > 0

BeforeStart(lines) == SubSeq(lines, 1, StartAt(lines) - 1)

AfterEnd(lines) == SubSeq(lines, EndAt(lines) + 1, Len(lines))

(* buildUFW has just returned from reading a file with both markers *)
Rebuilt ==
    variant = "ufw" /\ pc = "open" /\ hist.readOK /\ HasRegion(ScanLines(file))

PrefixSuffixKept ==
    /\ HasRegion(config)
    /\ BeforeStart(config) = BeforeStart(ScanLines(file))
    /\ AfterEnd(config) = AfterEnd(ScanLines(file))

-----------------------------------------------------------------------------
(* C1: in both programs, the reload of an iteration is fired only if the   *)
(* write of the artifact in that iteration succeeded.                      *)
C1_ReloadOnlyAfterWrite == hist.reloads > 0 => hist.writeOK

(* C2: a failed fetch never ends the loop or the process: after it the     *)
(* loop is back at the fetch (or the process was interrupted).             *)
C2_FetchFailureNotFatal == hist.fetchErr => pc \in {"fetch", "exited"}

(* C3: in an iteration whose fetch failed, oldHosts keeps the value it had *)
(* before the fetch and nothing is rendered, written or reloaded.          *)
C3_FetchErrorSkipsCycle ==
    hist.fetchErr =>
        /\ oldHosts = hist.prev
        /\ hist.renders = 0
        /\ hist.writes = 0
        /\ hist.reloads = 0

(* C3 witness: the nginx loop has a non-empty snapshot and its second      *)
(* fetch failed.                                                           *)
C3_Witness ==
    variant = "nginx" /\ hist.fetchErr /\ cycles = 2 /\ oldHosts # <<>> /\ pc = "fetch"

(* C4: at the end of an iteration that detected a change and whose write   *)
(* failed, oldHosts has not advanced.                                      *)
C4_FailedWriteKeepsPrevious ==
    (pc = "sleep" /\ changed /\ hist.writes > 0 /\ ~hist.writeOK) => oldHosts = hist.prev

(* C5: an iteration with a successful fetch renders, writes and reloads    *)
(* exactly once when the fetched addresses differ from the previous ones   *)
(* as a set, and not at all when they are the same set.                    *)
C5_OneCyclePerChange ==
    (pc = "sleep" /\ ~hist.fetchErr) =>
        IF SetOf(newHosts) # SetOf(hist.prev)
        THEN hist.renders = 1 /\ hist.writes = 1 /\ hist.reloads = 1
        ELSE hist.renders = 0 /\ hist.writes = 0 /\ hist.reloads = 0

(* C6: isDiff(A, A) is false and isDiff(A, B) = isDiff(B, A), for the      *)
(* lists of the call isDiff(newHosts, oldHosts) just made.                 *)
C6_ReflexiveSymmetric ==
    Diffed =>
        /\ ~isDiff(newHosts, newHosts)
        /\ ~isDiff(oldHosts, oldHosts)
        /\ changed = isDiff(oldHosts, newHosts)

(* C7: isDiff returns false exactly when the two lists hold the same set   *)
(* of addresses.                                                           *)
C7_SetEquality == Diffed => (changed <=> SetOf(newHosts) # SetOf(oldHosts))

(* C8 as stated: whatever lines stand before the start marker and after    *)
(* the end marker, buildUFW returns them unchanged around the new region.  *)
C8_AnyLinesKept == Rebuilt => PrefixSuffixKept

(* C8 amended: the same, for a file with no end marker line before its     *)
(* first start marker line.                                                *)
C8_PrefixSuffixKept ==
    (Rebuilt /\ FirstLine(ScanLines(file), EndMarker, 1) > StartAt(ScanLines(file)))
        => PrefixSuffixKept

(* C8 witness: a file with a line before the start marker, the end marker  *)
(* after it and a line after that, rebuilt for a non-empty address list.   *)
C8_Witness ==
    /\ Rebuilt
    /\ FirstLine(ScanLines(file), EndMarker, 1) > StartAt(ScanLines(file))
    /\ BeforeStart(ScanLines(file)) # <<>>
    /\ AfterEnd(ScanLines(file)) # <<>>
    /\ newHosts # <<>>

(* C9: after a write whose open succeeded, the file holds exactly the      *)
(* rendered lines, each followed by a newline, whatever it held before.    *)
C9_FileIsRendering == (Written /\ hist.writeOK) => file = Join(config)

(* C10: when the rules file cannot be opened, buildUFW still returns the   *)
(* static rules followed by the rules of every address.                    *)
C10_UnreadableStillRenders ==
    (variant = "ufw" /\ pc = "open" /\ hist.renders > 0 /\ ~hist.readOK)
        => config = fixedRules \o ufwRules(newHosts)

-----------------------------------------------------------------------------
(* C11: whenever the interrupt ends the process, the file holds a complete *)
(* artifact: what it held when the iteration fetched, or all the lines     *)
(* rendered in the iteration.                                              *)
C11_ExitLeavesCompleteFile ==
    pc = "exited" => (file = hist.before \/ file = Join(config))

(* C12: between two consecutive fetches the loop sleeps at least once.     *)
C12_SleepBetweenFetches == cycles > 1 => hist.gap >= 1

-----------------------------------------------------------------------------
(* C13: buildNginx returns, for each upstream group in the configured      *)
(* order, the line `upstream <name> {`, one `server <address>:<port>       *)
(* weight=100;` line per address in input order, and the line `}`, and     *)
(* nothing else.                                                           *)

(* The groups as the claim's text names them: name and port in decimal *)
UpstreamGroups ==
    << <<"diy", "32016">>, <<"dockerui", "32018">>, <<"tryingadventure", "32020">>,
       <<"devops", "32021">>, <<"monitor", "32699">> >>

C13_UpstreamBlocks ==
    (variant = "nginx" /\ pc = "open") =>
        LET n == Len(newHosts)
            at(g) == (g - 1) * (n + 2)
        IN  /\ Len(config) = Len(UpstreamGroups) * (n + 2)
            /\ \A g \in 1..Len(UpstreamGroups) :
                /\ config[at(g) + 1] = "upstream " \o UpstreamGroups[g][1] \o " {"
                /\ \A i \in 1..n :
                    config[at(g) + 1 + i] =
                        "server " \o IPString(newHosts[i]) \o ":"
                            \o UpstreamGroups[g][2] \o " weight=100;"
                /\ config[at(g) + n + 2] = "}"

(* C13 witness: rendered for three addresses, two of them different *)
C13_Witness ==
    /\ variant = "nginx" /\ pc = "open"
    /\ Len(newHosts) = 3 /\ newHosts[1] # newHosts[2]
    /\ Len(config) = 25

-----------------------------------------------------------------------------
(* C14: for a readable rules file, what buildUFW puts between the kept     *)
(* lines (those up to the start marker, those from the end marker on) is   *)
(* the static block followed, per address in input order, by its tuple     *)
(* comment line and its accept line for port 27017 (and an empty separator *)
(* line); so the rule lines generated for a part of the addresses are all  *)
(* among the lines returned for the whole list.                            *)

(* Number of lines buildUFW keeps before and after what it generates *)
KeptBefore(lines) == IF StartAt(lines) > 0 THEN StartAt(lines) ELSE Len(lines)

KeptAfter(lines) ==
    IF FirstLine(lines, EndMarker, 1) > 0
    THEN Len(lines) - FirstLine(lines, EndMarker, 1) + 1 ELSE 0

Generated(out, lines) ==
    SubSeq(out, KeptBefore(lines) + 1, Len(out) - KeptAfter(lines))

TupleLine(ip) == "### tuple ### allow tcp 27017 0.0.0.0/0 any " \o IPString(ip) \o " in"

AcceptLine(ip) == "-A ufw-user-input -p tcp --dport 27017 -s " \o IPString(ip) \o " -j ACCEPT"

(* The sublists of hosts: one per set of kept positions *)
RECURSIVE Pick(_, _, _)
Pick(hosts, keep, i) ==
    IF i > Len(hosts) THEN <<>>
    ELSE (IF i \in keep THEN <<hosts[i]>> ELSE <<>>) \o Pick(hosts, keep, i + 1)

C14_GeneratedRegion ==
    (variant = "ufw" /\ pc = "open" /\ hist.readOK) =>
        LET lines == ScanLines(file)
            gen == Generated(config, lines)
            k == Len(fixedRules)
        IN  /\ Len(config) = KeptBefore(lines) + k + 3 * Len(newHosts) + KeptAfter(lines)
            /\ SubSeq(gen, 1, k) = fixedRules
            /\ \A i \in 1..Len(newHosts) :
                /\ gen[k + 3 * i - 2] = TupleLine(newHosts[i])
                /\ gen[k + 3 * i - 1] = AcceptLine(newHosts[i])
                /\ gen[k + 3 * i] = ""
            /\ \A keep \in SUBSET (1..Len(newHosts)) :
                LET part == Generated(buildUFW(Pick(newHosts, keep, 1), file, TRUE), lines)
                IN  \A j \in 1..Len(part) : \E m \in 1..Len(gen) : gen[m] = part[j]

(* C14 witness: a file with both markers rebuilt for two different addresses *)
C14_Witness ==
    /\ Rebuilt
    /\ Len(newHosts) = 2 /\ newHosts[1] # newHosts[2]
    /\ Len(Generated(config, ScanLines(file))) = 11

-----------------------------------------------------------------------------
-----------------------------------------------------------------------------
(* C16: a reload is called only after this iteration's one render and one  *)
(* write; when it is called, the lines are those rendered from the fetched *)
(* list and the write of them has returned; and the loop is past the       *)
(* reload (up to the next fetch) only after the reload of an iteration     *)
(* that rendered.                                                          *)
C16_RenderWriteReload ==
    /\ (pc = "reload" \/ hist.reloads > 0) =>
        /\ hist.renders = 1 /\ hist.writes = 1 /\ hist.reloads <= 1
        /\ fh = Closed
    /\ pc = "reload" =>
        /\ config = IF variant = "nginx" THEN buildNginx(newHosts)
                    ELSE buildUFW(newHosts, hist.before, hist.readOK)
        /\ wpos = IF variant = "nginx" THEN Len(config) ELSE Len(Join(config))
        /\ (hist.writeOK => SubSeq(file, 1, Len(Join(config))) = Join(config))
    /\ (hist.renders > 0 /\ pc \in {"postsleep", "advance", "sleep", "fetch"}) =>
        hist.reloads = 1

(* C16 witness: a reload was called after a write that succeeded, for a    *)
(* non-empty list.                                                         *)
C16_Witness ==
    hist.reloads = 1 /\ hist.writeOK /\ newHosts # <<>> /\ pc = "fetch"

-----------------------------------------------------------------------------
(* C17: ufw, no open has failed so far: at the end of an iteration that    *)
(* wrote, the file holds rule text for an address only if the address is   *)
(* in the list just written.                                               *)

Contains(hay, needle) ==
    \E i \in 1..(Len(hay) - Len(needle) + 1) :
        SubSeq(hay, i, i + Len(needle) - 1) = needle

(* The addresses the cluster can report *)
ClusterAddresses == {ParseIP(Split(a, "/")[1]) : a \in Annotations}

C17_NoStaleRules ==
    (variant = "ufw" /\ pc = "sleep" /\ hist.writes = 1 /\ ~hist.dirty) =>
        \A ip \in ClusterAddresses :
            Contains(file, " " \o IPString(ip) \o " ") => IPString(ip) \in SetOf(newHosts)

-----------------------------------------------------------------------------
(* C18: ufw, starting from a file with one start marker and one end marker *)
(* after it, no open has failed so far: at the end of every iteration the file still has exactly one  *)
(* of each, in that order, and after an iteration that rendered and wrote, *)
(* rendering the file again for the same list returns the file's lines.    *)

CountLines(lines, m) == Cardinality({i \in 1..Len(lines) : lines[i] = m})

C18_MarkersAndFixedPoint ==
    (variant = "ufw" /\ pc = "sleep" /\ ~hist.dirty) =>
        LET lines == ScanLines(file)
        IN  /\ CountLines(lines, StartMarker) = 1
            /\ CountLines(lines, EndMarker) = 1
            /\ StartAt(lines) < FirstLine(lines, EndMarker, 1)
            /\ (hist.writes = 1 /\ hist.writeOK /\ hist.readOK)
                   => buildUFW(newHosts, file, TRUE) = lines

=============================================================================
